---- MODULE Spec2Model ----
(***************************************************************************)
(* BSONObjBuilder (src/mongo/bson/bsonobjbuilder.cpp): the type-bounds     *)
(* generator (appendMinForType / appendMaxForType), the textual numeric    *)
(* coercion (appendAsNumber) and the buffer-composition operations         *)
(* (appendElements, appendElementsUnique, appendKeys, hasField, iterator). *)
(*                                                                         *)
(* The buffer _b is modelled element by element: an encoded element is a   *)
(* record [type, name, val] standing for tag byte, NUL-terminated name and *)
(* payload.  Strings that are parsed or ordered are sequences of           *)
(* one-character strings; integers wider than 32 bits are decimal numerals *)
(* [neg, digits] (digits without leading zeros).                           *)
(***************************************************************************)
EXTENDS Integers, Sequences, FiniteSets, TLC

VARIABLES
    _b,        \* the buffer, element by element (the parent's elements first)
    _offset,   \* how many elements of the buffer precede this builder's document
    before,    \* the buffer as it was when the last call began
    last,      \* the last call: operation, arguments, and how it ended
    log,       \* the diagnostics written by log()
    appended   \* the field names the append operations were to append so far

vars == <<_b, _offset, before, last, log, appended>>

(***************************************************************************)
(* Bounds of the model.                                                    *)
(***************************************************************************)
\* most elements a builder holds in Spec (all operations)
MaxElems == 2
\* most elements a builder holds in SpecBounds (appendMin/MaxForType only)
MaxBoundElems == 1
\* longest document passed to appendElements / appendElementsUnique / appendKeys
MaxDocLen == 2
\* longest text of the exhaustive part of the appendAsNumber inputs
MaxTextLen == 3

(***************************************************************************)
(* Program constants.                                                      *)
(***************************************************************************)
\* numeric_limits<int32_t>::max()
INT32_MAX == 2147483647

\* the length below which appendAsNumber takes the atoi path
ShortTextLimit == 8

(***************************************************************************)
(* Sequences, digits, numerals.                                            *)
(***************************************************************************)
Digits == {"0", "1", "2", "3", "4", "5", "6", "7", "8", "9"}

\* isdigit(c), for the characters of the model
isdigit(c) == c \in Digits

DigitVal(c) ==
    CASE c = "0" -> 0 [] c = "1" -> 1 [] c = "2" -> 2 [] c = "3" -> 3
      [] c = "4" -> 4 [] c = "5" -> 5 [] c = "6" -> 6 [] c = "7" -> 7
      [] c = "8" -> 8 [] c = "9" -> 9

\* the digit values of a run of digit characters
DigitsOf(s) == [i \in 1..Len(s) |-> DigitVal(s[i])]

RECURSIVE StripLeadingZeros(_)
StripLeadingZeros(ds) ==
    IF ds /= <<>> /\ ds[1] = 0 THEN StripLeadingZeros(Tail(ds)) ELSE ds

RECURSIVE StripTrailingZeros(_)
StripTrailingZeros(ds) ==
    IF ds /= <<>> /\ ds[Len(ds)] = 0
    THEN StripTrailingZeros(SubSeq(ds, 1, Len(ds) - 1))
    ELSE ds

CmpInt(a, b) == IF a < b THEN -1 ELSE IF a > b THEN 1 ELSE 0

\* lexicographic order of two sequences of integers, a proper prefix first
RECURSIVE CmpLex(_, _)
CmpLex(a, b) ==
    IF a = <<>> THEN (IF b = <<>> THEN 0 ELSE -1)
    ELSE IF b = <<>> THEN 1
    ELSE IF a[1] /= b[1] THEN CmpInt(a[1], b[1])
    ELSE CmpLex(Tail(a), Tail(b))

\* order of two magnitudes written without leading zeros
CmpDigits(a, b) ==
    IF Len(a) /= Len(b) THEN CmpInt(Len(a), Len(b)) ELSE CmpLex(a, b)

\* a signed decimal numeral; zero has no sign
Numeral(neg, ds) ==
    LET m == StripLeadingZeros(ds)
    IN  [neg |-> neg /\ m /= <<>>, digits |-> m]

CmpNumeral(x, y) ==
    IF x.neg /= y.neg THEN (IF x.neg THEN -1 ELSE 1)
    ELSE IF x.neg THEN CmpDigits(y.digits, x.digits)
    ELSE CmpDigits(x.digits, y.digits)

\* numeric_limits<long long>::max() and ::min()
INT64_MAX == Numeral(FALSE, <<9,2,2,3,3,7,2,0,3,6,8,5,4,7,7,5,8,0,7>>)
INT64_MIN == Numeral(TRUE, <<9,2,2,3,3,7,2,0,3,6,8,5,4,7,7,5,8,0,8>>)

InInt64(n) == CmpNumeral(INT64_MIN, n) <= 0 /\ CmpNumeral(n, INT64_MAX) <= 0

Int32MaxNumeral == Numeral(FALSE, <<2,1,4,7,4,8,3,6,4,7>>)
Int32MinNumeral == Numeral(TRUE, <<2,1,4,7,4,8,3,6,4,8>>)

InInt32(n) == CmpNumeral(Int32MinNumeral, n) <= 0 /\ CmpNumeral(n, Int32MaxNumeral) <= 0

\* the integer a numeral of the 32-bit range denotes
RECURSIVE MagToInt(_, _)
MagToInt(ds, acc) ==
    IF ds = <<>> THEN acc ELSE MagToInt(Tail(ds), acc * 10 + ds[1])

NumeralToInt(n) ==
    IF n = Int32MinNumeral THEN -INT32_MAX - 1
    ELSE IF n.neg THEN -MagToInt(n.digits, 0) ELSE MagToInt(n.digits, 0)

(***************************************************************************)
(* Encoded elements and the payloads the append primitives write.          *)
(***************************************************************************)
Elem(type, name, val) == [type |-> type, name |-> name, val |-> val]

NoPayload == [nothing |-> TRUE]

\* a double: mag "dec" is the finite decimal int.frac, "max" is
\* numeric_limits<double>::max(), "inf" is infinity
Dbl(neg, mag, int, frac) == [neg |-> neg, mag |-> mag, int |-> int, frac |-> frac]

DoubleMax == Dbl(FALSE, "max", <<>>, <<>>)
NegDoubleMax == Dbl(TRUE, "max", <<>>, <<>>)

\* OID(): the twelve zero bytes; OID::max(): twelve bytes 0xFF
ZeroOID == [i \in 1..12 |-> 0]
MaxOID == [i \in 1..12 |-> 255]

DoubleVal(d) == [dbl |-> d]
IntVal(i) == [i32 |-> i]
LongVal(n) == [i64 |-> n]
StringVal(s) == [str |-> s]
BoolVal(b) == [b |-> b]
DateVal(n) == [millis |-> n]
TimestampVal(secs, inc) == [secs |-> secs, inc |-> inc]
OIDVal(o) == [oid |-> o]
ObjVal(doc) == [obj |-> doc]
BinDataVal(len, subtype, data) == [len |-> len, subtype |-> subtype, data |-> data]
RegexVal(regex, flags) == [regex |-> regex, flags |-> flags]
DBRefVal(ns, o) == [ns |-> ns, oid |-> o]
CodeVal(c) == [code |-> c]
CodeWScopeVal(c, scope) == [code |-> c, scope |-> scope]

(***************************************************************************)
(* appendMinForType / appendMaxForType.                                    *)
(* A switch arm is <<type, payload>> of the one element it appends;        *)
(* FallThrough stands for leaving the switch without a return.             *)
(***************************************************************************)
FallThrough == <<"none", NoPayload>>

\* case Date of appendMinForType: one type lower, appendBool(fieldName, true)
DateMin == <<"Bool", BoolVal(TRUE)>>

\* (variant: the most negative long long in place of -DBL_MAX)
NumberMinAsLongMin == <<"NumberLong", LongVal(INT64_MIN)>>
\* case NumberInt / NumberDouble / NumberLong of appendMinForType
NumberMin == <<"NumberDouble", DoubleVal(NegDoubleMax)>>

MinSwitch(t) ==
    CASE t \in {"NumberInt", "NumberDouble", "NumberLong"} -> NumberMin
      [] t \in {"Symbol", "String"} -> <<"String", StringVal(<<>>)>>
      [] t = "Date" -> DateMin
      [] t = "Timestamp" -> <<"Timestamp", TimestampVal(0, 0)>>
      [] t = "Undefined" -> <<"Undefined", NoPayload>>
      [] t = "MinKey" -> <<"MinKey", NoPayload>>
      [] t = "MaxKey" -> <<"MaxKey", NoPayload>>
      [] t = "jstOID" -> <<"jstOID", OIDVal(ZeroOID)>>
      [] t = "Bool" -> <<"Bool", BoolVal(FALSE)>>
      [] t = "jstNULL" -> <<"jstNULL", NoPayload>>
      [] t = "Object" -> <<"Object", ObjVal(<<>>)>>
      [] t = "Array" -> <<"Array", ObjVal(<<>>)>>
      [] t = "BinData" -> <<"BinData", BinDataVal(0, "BinDataGeneral", <<>>)>>
      [] t = "RegEx" -> <<"RegEx", RegexVal(<<>>, <<>>)>>
      [] t = "DBRef" -> <<"DBRef", DBRefVal(<<>>, ZeroOID)>>
      [] t = "Code" -> <<"Code", CodeVal(<<>>)>>
      [] t = "CodeWScope" -> <<"CodeWScope", CodeWScopeVal(<<>>, <<>>)>>
      [] OTHER -> FallThrough

\* what a call leaves behind: the elements appended, the diagnostics logged,
\* and how it ended ("void", "true", "false", or the assertion that threw)
Outcome(ret, elems, logged) == [ret |-> ret, elems |-> elems, logged |-> logged]

\* (variant: the assertion does not fire and the call returns)
MinFallThroughReturns(fieldName, t) ==
    Outcome("void", <<>>, <<"type not supported for appendMinElementForType">>)
\* after the switch of appendMinForType: log(), then uassert(10061, ..., false)
MinFallThrough(fieldName, t) ==
    Outcome("uassert 10061", <<>>, <<"type not supported for appendMinElementForType">>)

appendMinForType(fieldName, t) ==
    LET arm == MinSwitch(t)
    IN  IF arm = FallThrough
        THEN MinFallThrough(fieldName, t)
        ELSE Outcome("void", <<Elem(arm[1], fieldName, arm[2])>>, <<>>)

\* (variant: case Object calls appendMinForType(fieldName, BinData))
MaxChainSkipsArray(t) ==
    CASE t \in {"Symbol", "String"} -> "Object"
      [] t = "Object" -> "BinData"
      [] t = "Array" -> "BinData"
      [] t = "BinData" -> "jstOID"
      [] t = "RegEx" -> "DBRef"
      [] t = "DBRef" -> "Code"
      [] t = "Code" -> "CodeWScope"
      [] t = "CodeWScope" -> "MaxKey"
      [] OTHER -> "none"
\* the arms of appendMaxForType that call appendMinForType(fieldName, <tag>)
MaxChain(t) ==
    CASE t \in {"Symbol", "String"} -> "Object"
      [] t = "Object" -> "Array"
      [] t = "Array" -> "BinData"
      [] t = "BinData" -> "jstOID"
      [] t = "RegEx" -> "DBRef"
      [] t = "DBRef" -> "Code"
      [] t = "Code" -> "CodeWScope"
      [] t = "CodeWScope" -> "MaxKey"
      [] OTHER -> "none"

\* case Timestamp of appendMaxForType: Timestamp_t(max, max), max = INT32_MAX
TimestampMax == <<"Timestamp", TimestampVal(INT32_MAX, INT32_MAX)>>

\* the arms of appendMaxForType that append a value of their own
MaxSwitch(t) ==
    CASE t \in {"NumberInt", "NumberDouble", "NumberLong"} ->
            <<"NumberDouble", DoubleVal(DoubleMax)>>
      [] t = "Date" -> <<"Date", DateVal(INT64_MAX)>>
      [] t = "Timestamp" -> TimestampMax
      [] t = "Undefined" -> <<"Undefined", NoPayload>>
      [] t = "MinKey" -> <<"MinKey", NoPayload>>
      [] t = "MaxKey" -> <<"MaxKey", NoPayload>>
      [] t = "jstOID" -> <<"jstOID", OIDVal(MaxOID)>>
      [] t = "Bool" -> <<"Bool", BoolVal(TRUE)>>
      [] t = "jstNULL" -> <<"jstNULL", NoPayload>>
      [] OTHER -> FallThrough

\* after the switch of appendMaxForType: log(), then uassert(14853, ..., false)
MaxFallThrough(fieldName, t) ==
    Outcome("uassert 14853", <<>>, <<"type not supported for appendMaxElementForType">>)

appendMaxForType(fieldName, t) ==
    IF MaxChain(t) /= "none"
    THEN appendMinForType(fieldName, MaxChain(t))
    ELSE LET arm == MaxSwitch(t)
         IN  IF arm = FallThrough
             THEN MaxFallThrough(fieldName, t)
             ELSE Outcome("void", <<Elem(arm[1], fieldName, arm[2])>>, <<>>)

(***************************************************************************)
(* appendAsNumber.                                                         *)
(***************************************************************************)
\* data.size() == 0 || data == "-" || data == "."
EarlyReject(data) == data = <<>> \/ data = <<"-">> \/ data = <<".">>

\* unsigned pos = 0; if (data[0] == '-') pos++;   (positions from 1 here)
StartPos(data) == IF data[1] = "-" THEN 2 ELSE 1

\* the validation loop: "reject" on an illegal character or a second '.',
\* otherwise whether a '.' was seen
RECURSIVE Scan(_, _, _)
Scan(data, pos, hasDec) ==
    IF pos > Len(data) THEN (IF hasDec THEN "dec" ELSE "nodec")
    ELSE IF isdigit(data[pos]) THEN Scan(data, pos + 1, hasDec)
    ELSE IF data[pos] = "."
         THEN (IF hasDec THEN "reject" ELSE Scan(data, pos + 1, TRUE))
    ELSE "reject"

\* the sign and the digit characters of a text made of an optional '-' and digits
IsNeg(data) == data /= <<>> /\ data[1] = "-"
Body(data) == IF IsNeg(data) THEN Tail(data) ELSE data

DotPos(s) == CHOOSE i \in 1..Len(s) : s[i] = "."

\* atof on a validated text with one '.': the decimal it denotes, and 0.0 when
\* the text holds no digit (no conversion is performed).  Rounding to the
\* nearest binary64 is not modelled.
atof(data) ==
    LET s == Body(data)
        k == DotPos(s)
        ip == DigitsOf(SubSeq(s, 1, k - 1))
        fp == DigitsOf(SubSeq(s, k + 1, Len(s)))
    IN  IF ip = <<>> /\ fp = <<>>
        THEN Dbl(FALSE, "dec", <<>>, <<>>)
        ELSE Dbl(IsNeg(data), "dec", StripLeadingZeros(ip), StripTrailingZeros(fp))

\* the decimal value of a validated text without '.'
DecimalValue(data) == Numeral(IsNeg(data), DigitsOf(Body(data)))

\* atoi on a validated text without '.': its value when an int can hold it;
\* otherwise the behaviour is undefined and any int may come back
atoi(data) ==
    IF InInt32(DecimalValue(data))
    THEN {NumeralToInt(DecimalValue(data))}
    ELSE {-INT32_MAX - 1, -1, 0, INT32_MAX}

\* if (hasDec) { append(fieldName, atof(data)); return true; }
DoublePath(fieldName, data) ==
    {Outcome("true", <<Elem("NumberDouble", fieldName, DoubleVal(atof(data)))>>, <<>>)}

\* (variant: every text an int could hold, up to 10 digits and a sign)
IsShortBelowEleven(data) == Len(data) < 11
\* if (data.size() < 8)
IsShort(data) == Len(data) < ShortTextLimit

\* { append(fieldName, atoi(data)); return true; }
IntPath(fieldName, data) ==
    {Outcome("true", <<Elem("NumberInt", fieldName, IntVal(i))>>, <<>>) : i \in atoi(data)}

\* (variant: a clamped value is appended before the failure is noticed)
LongPathAppendsFirst(fieldName, data) ==
    LET num == DecimalValue(data)
    IN  IF InInt64(num)
        THEN {Outcome("true", <<Elem("NumberLong", fieldName, LongVal(num))>>, <<>>)}
        ELSE {Outcome("false", <<Elem("NumberLong", fieldName, LongVal(INT64_MAX))>>, <<>>)}
\* try { num = lexical_cast<long long>(data); append(fieldName, num); return true; }
\* catch (bad_lexical_cast&) { return false; }
LongPath(fieldName, data) ==
    LET num == DecimalValue(data)
    IN  IF InInt64(num)
        THEN {Outcome("true", <<Elem("NumberLong", fieldName, LongVal(num))>>, <<>>)}
        ELSE {Outcome("false", <<>>, <<>>)}

\* the outcomes of appendAsNumber(fieldName, data)
appendAsNumber(fieldName, data) ==
    IF EarlyReject(data) THEN {Outcome("false", <<>>, <<>>)}
    ELSE LET seen == Scan(data, StartPos(data), FALSE)
         IN  IF seen = "reject" THEN {Outcome("false", <<>>, <<>>)}
             ELSE IF seen = "dec" THEN DoublePath(fieldName, data)
             ELSE IF IsShort(data) THEN IntPath(fieldName, data)
             ELSE LongPath(fieldName, data)

(***************************************************************************)
(* iterator, hasField, appendElements, appendElementsUnique, appendKeys.   *)
(***************************************************************************)
\* (variant: the iteration starts at _b.buf(), ignoring _offset)
iteratorFromBufferStart(buf, offset) == buf
\* BSONObjIterator(_b.buf() + _offset, _b.buf() + _b.len())
iterator(buf, offset) == SubSeq(buf, offset + 1, Len(buf))

hasField(buf, offset, name) ==
    \E i \in 1..Len(iterator(buf, offset)) : iterator(buf, offset)[i].name = name

\* if (!x.isEmpty()) _b.appendBuf(x.objdata() + 4, x.objsize() - 5);
appendElements(x) ==
    IF x /= <<>> THEN Outcome("void", x, <<>>) ELSE Outcome("void", <<>>, <<>>)

\* std::set<std::string> have: the field names the builder holds at the call
Have(buf, offset) ==
    {iterator(buf, offset)[i].name : i \in 1..Len(iterator(buf, offset))}

\* (variant: each appended name is inserted into have)
RECURSIVE UniqueLoopInsertingIntoHave(_, _)
UniqueLoopInsertingIntoHave(have, x) ==
    IF x = <<>> THEN <<>>
    ELSE IF x[1].name \in have THEN UniqueLoopInsertingIntoHave(have, Tail(x))
    ELSE <<x[1]>> \o UniqueLoopInsertingIntoHave(have \cup {x[1].name}, Tail(x))
\* while (it.more()) { e = it.next(); if (have.count(e.fieldName())) continue; append(e); }
RECURSIVE UniqueLoop(_, _)
UniqueLoop(have, x) ==
    IF x = <<>> THEN <<>>
    ELSE IF x[1].name \in have THEN UniqueLoop(have, Tail(x))
    ELSE <<x[1]>> \o UniqueLoop(have, Tail(x))

appendElementsUnique(buf, offset, x) ==
    Outcome("void", UniqueLoop(Have(buf, offset), x), <<>>)

\* appendAs(e, fieldName): e's tag and payload under another name
appendAs(e, fieldName) == Elem(e.type, fieldName, e.val)

\* while (i.more() && j.more()) appendAs(j.next(), i.next().fieldName());
Min(a, b) == IF a < b THEN a ELSE b
KeysLoop(keyPattern, values) ==
    [k \in 1..Min(Len(keyPattern), Len(values)) |-> appendAs(values[k], keyPattern[k].name)]

\* ... then verify(!i.more()); verify(!j.more());
appendKeys(keyPattern, values) ==
    Outcome(IF Len(keyPattern) > Len(values) THEN "verify !i.more()"
            ELSE IF Len(values) > Len(keyPattern) THEN "verify !j.more()"
            ELSE "void",
            KeysLoop(keyPattern, values), <<>>)

(***************************************************************************)
(* Inputs.                                                                 *)
(***************************************************************************)
FieldNames == {"a", "b"}

\* the tags the two switches name, and two they do not
SupportedTags ==
    {"NumberInt", "NumberDouble", "NumberLong", "Symbol", "String", "Date",
     "Timestamp", "Undefined", "MinKey", "MaxKey", "jstOID", "Bool", "jstNULL",
     "Object", "Array", "BinData", "RegEx", "DBRef", "Code", "CodeWScope"}
OtherTags == {"EOO", "Invalid"}
AllTags == SupportedTags \cup OtherTags
FewTags == {"Date", "EOO"}

SeqsUpTo(S, n) == UNION {[1..k -> S] : k \in 0..n}

DocElems == {Elem("NumberInt", "a", IntVal(2)), Elem("NumberInt", "b", IntVal(3))}
Docs == SeqsUpTo(DocElems, MaxDocLen)

\* the key patterns {}, {x: 1}, {x: 1, y: 1}, ...
KeyName(i) == CASE i = 1 -> "x" [] i = 2 -> "y" [] OTHER -> "z"
KeyPatterns ==
    {[i \in 1..k |-> Elem("NumberInt", KeyName(i), IntVal(1))] : k \in 0..MaxDocLen}

QueryNames == FieldNames \cup {"x", "y"}

Alphabet == {"-", ".", "0", "7", "a"}
ShortTexts == SeqsUpTo(Alphabet, MaxTextLen)
LongTexts ==
    {<<"1","2","3">>, <<"-","1","2","3",".","5">>, <<"1","2","a">>,
     <<"9","9","9","9","9","9","9">>, <<"-","9","9","9","9","9","9">>,
     <<"0","0","0","0","0","4","2">>,
     <<"1","2","3","4","5","6","7","8">>, <<"-","1","2","3","4","5","6","7">>,
     <<"0","0","0","0","0","0","0","0">>,
     <<"9","9","9","9","9","9","9","9","9","9">>,
     <<"1","2","3","4","5","6","7",".","5">>,
     <<"1",".","2",".","3","4","5","6","7">>,
     <<"1","2","3","4","5","6","7","8","e","5">>,
     <<"9","2","2","3","3","7","2","0","3","6","8","5","4","7","7","5","8","0","7">>,
     <<"9","2","2","3","3","7","2","0","3","6","8","5","4","7","7","5","8","0","8">>,
     <<"-","9","2","2","3","3","7","2","0","3","6","8","5","4","7","7","5","8","0","8">>,
     <<"-","9","2","2","3","3","7","2","0","3","6","8","5","4","7","7","5","8","0","9">>,
     <<"0","0","9","2","2","3","3","7","2","0","3","6","8","5","4","7","7","5","8","0","7">>,
     <<"9","9","9","9","9","9","9","9","9","9","9","9","9","9","9","9","9","9","9","9">>}
Texts == ShortTexts \cup LongTexts
FewTexts == {<<"1">>, <<"-", ".">>, <<"1", "a">>}

(***************************************************************************)
(* The builder as a state machine.                                         *)
(***************************************************************************)
Call(op, name, t, data, x, keyPattern) ==
    [op |-> op, name |-> name, t |-> t, data |-> data, x |-> x,
     keyPattern |-> keyPattern, ret |-> "none"]

NoCall == Call("none", "", "", <<>>, <<>>, <<>>)

Thrown == {"uassert 10061", "uassert 14853", "verify !i.more()", "verify !j.more()"}

\* a builder on a buffer of its own (_offset = 0), or a sub-builder on a buffer
\* that already holds its parent's bytes
ParentContent == <<Elem("NumberInt", "a", IntVal(1))>>

Init ==
    /\ _b \in {<<>>, ParentContent}
    /\ _offset = Len(_b)
    /\ before = _b
    /\ last = NoCall
    /\ log = <<>>
    /\ appended = {}

\* no call follows one that threw
Running == last.ret \notin Thrown

\* the cap of the model on the elements a builder holds
Within(cap) == Len(_b') - _offset <= cap

NamesOf(doc) == {doc[i].name : i \in 1..Len(doc)}

AppendMinForType(fieldName, t, cap) ==
    LET out == appendMinForType(fieldName, t)
    IN  /\ Running
        /\ _b' = _b \o out.elems
        /\ log' = log \o out.logged
        /\ last' = [Call("appendMinForType", fieldName, t, <<>>, <<>>, <<>>)
                      EXCEPT !.ret = out.ret]
        /\ before' = _b
        /\ appended' = appended \cup (IF t \in SupportedTags THEN {fieldName} ELSE {})
        /\ UNCHANGED _offset
        /\ Within(cap)

AppendMaxForType(fieldName, t, cap) ==
    LET out == appendMaxForType(fieldName, t)
    IN  /\ Running
        /\ _b' = _b \o out.elems
        /\ log' = log \o out.logged
        /\ last' = [Call("appendMaxForType", fieldName, t, <<>>, <<>>, <<>>)
                      EXCEPT !.ret = out.ret]
        /\ before' = _b
        /\ appended' = appended \cup (IF t \in SupportedTags THEN {fieldName} ELSE {})
        /\ UNCHANGED _offset
        /\ Within(cap)

AppendAsNumber(fieldName, data, cap) ==
    \E out \in appendAsNumber(fieldName, data) :
        /\ Running
        /\ _b' = _b \o out.elems
        /\ log' = log \o out.logged
        /\ last' = [Call("appendAsNumber", fieldName, "", data, <<>>, <<>>)
                      EXCEPT !.ret = out.ret]
        /\ before' = _b
        /\ appended' = appended \cup (IF out.ret = "true" THEN {fieldName} ELSE {})
        /\ UNCHANGED _offset
        /\ Within(cap)

AppendElements(x, cap) ==
    LET out == appendElements(x)
    IN  /\ Running
        /\ _b' = _b \o out.elems
        /\ log' = log \o out.logged
        /\ last' = [Call("appendElements", "", "", <<>>, x, <<>>) EXCEPT !.ret = out.ret]
        /\ before' = _b
        /\ appended' = appended \cup NamesOf(x)
        /\ UNCHANGED _offset
        /\ Within(cap)

AppendElementsUnique(x, cap) ==
    LET out == appendElementsUnique(_b, _offset, x)
    IN  /\ Running
        /\ _b' = _b \o out.elems
        /\ log' = log \o out.logged
        /\ last' = [Call("appendElementsUnique", "", "", <<>>, x, <<>>)
                      EXCEPT !.ret = out.ret]
        /\ before' = _b
        /\ appended' = appended \cup NamesOf(x)
        /\ UNCHANGED _offset
        /\ Within(cap)

AppendKeys(keyPattern, values, cap) ==
    LET out == appendKeys(keyPattern, values)
    IN  /\ Running
        /\ _b' = _b \o out.elems
        /\ log' = log \o out.logged
        /\ last' = [Call("appendKeys", "", "", <<>>, values, keyPattern)
                      EXCEPT !.ret = out.ret]
        /\ before' = _b
        /\ appended' =
              appended \cup
              NamesOf(SubSeq(keyPattern, 1, Min(Len(keyPattern), Len(values))))
        /\ UNCHANGED _offset
        /\ Within(cap)

HasField(name) ==
    /\ Running
    /\ last' = [Call("hasField", name, "", <<>>, <<>>, <<>>)
                  EXCEPT !.ret = IF hasField(_b, _offset, name) THEN "true" ELSE "false"]
    /\ before' = _b
    /\ UNCHANGED <<_b, _offset, log, appended>>

\* every operation, on small inputs, while the builder holds at most MaxElems
Next ==
    \/ \E fieldName \in FieldNames, t \in FewTags :
          AppendMinForType(fieldName, t, MaxElems)
    \/ \E fieldName \in FieldNames, t \in FewTags :
          AppendMaxForType(fieldName, t, MaxElems)
    \/ \E fieldName \in FieldNames, data \in FewTexts :
          AppendAsNumber(fieldName, data, MaxElems)
    \/ \E x \in Docs : AppendElements(x, MaxElems)
    \/ \E x \in Docs : AppendElementsUnique(x, MaxElems)
    \/ \E keyPattern \in KeyPatterns, values \in Docs :
          AppendKeys(keyPattern, values, MaxElems)
    \/ \E name \in QueryNames : HasField(name)

Spec == Init /\ [][Next]_vars

\* the type-bounds generator on every tag
NextBounds ==
    \/ \E fieldName \in FieldNames, t \in AllTags :
          AppendMinForType(fieldName, t, MaxBoundElems)
    \/ \E fieldName \in FieldNames, t \in AllTags :
          AppendMaxForType(fieldName, t, MaxBoundElems)

SpecBounds == Init /\ [][NextBounds]_vars

\* the numeric coercion: one call on every text, on a builder with room for
\* one more element
InitNumber ==
    /\ _offset \in {0, Len(ParentContent)}
    /\ \E own \in SeqsUpTo(DocElems, MaxElems - 1) :
          _b = (IF _offset = 0 THEN <<>> ELSE ParentContent) \o own
    /\ before = _b
    /\ last = NoCall
    /\ log = <<>>
    /\ appended = {_b[i].name : i \in (_offset + 1)..Len(_b)}

AppendAsNumberOnce(fieldName, data) ==
    last.op = "none" /\ AppendAsNumber(fieldName, data, MaxElems)

NextNumber ==
    \E fieldName \in FieldNames, data \in Texts : AppendAsNumberOnce(fieldName, data)

SpecNumber == InitNumber /\ [][NextNumber]_vars

(***************************************************************************)
(* The cross-type total order (the comparator lives outside this file; the *)
(* order of the type slots is the one the specification lists, and values  *)
(* of one slot compare in the natural order of their payloads).            *)
(***************************************************************************)
CanonicalRank(t) ==
    CASE t \in {"NumberInt", "NumberDouble", "NumberLong"} -> 1
      [] t \in {"Symbol", "String"} -> 2
      [] t = "Object" -> 3
      [] t = "Array" -> 4
      [] t = "BinData" -> 5
      [] t = "jstOID" -> 6
      [] t = "Bool" -> 7
      [] t = "Date" -> 8
      [] t = "jstNULL" -> 9
      [] t = "RegEx" -> 10
      [] t = "DBRef" -> 11
      [] t = "Code" -> 12
      [] t = "CodeWScope" -> 13
      [] t = "Timestamp" -> 14
      [] t = "MinKey" -> 15
      [] t \in {"Undefined", "EOO"} -> 16
      [] t = "MaxKey" -> 17

LastRank == CanonicalRank("MaxKey")

CharCode(c) ==
    CASE c = "-" -> 45 [] c = "." -> 46 [] c \in Digits -> 48 + DigitVal(c)
      [] c = "a" -> 97 [] c = "b" -> 98 [] c = "i" -> 105 [] c = "x" -> 120
      [] c = "y" -> 121 [] c = "z" -> 122

CmpStr(s, u) ==
    CmpLex([i \in 1..Len(s) |-> CharCode(s[i])], [i \in 1..Len(u) |-> CharCode(u[i])])

\* the first of two comparisons that decides
Then(c, d) == IF c /= 0 THEN c ELSE d

\* an int as a numeral
RECURSIVE NatDigits(_)
NatDigits(n) == IF n = 0 THEN <<>> ELSE NatDigits(n \div 10) \o <<n % 10>>

IntNumeral(i) ==
    IF i = -INT32_MAX - 1 THEN Int32MinNumeral
    ELSE IF i < 0 THEN Numeral(TRUE, NatDigits(-i)) ELSE Numeral(FALSE, NatDigits(i))

\* the number an element of a numeric kind holds, as a double-like record
NumOf(e) ==
    CASE e.type = "NumberDouble" -> e.val.dbl
      [] e.type = "NumberInt" ->
            Dbl(IntNumeral(e.val.i32).neg, "dec", IntNumeral(e.val.i32).digits, <<>>)
      [] e.type = "NumberLong" -> Dbl(e.val.i64.neg, "dec", e.val.i64.digits, <<>>)

Sign(x) ==
    IF x.mag = "dec" /\ x.int = <<>> /\ x.frac = <<>> THEN 0
    ELSE IF x.neg THEN -1 ELSE 1

MagRank(m) == CASE m = "dec" -> 0 [] m = "max" -> 1 [] m = "inf" -> 2

\* every decimal of the model is far shorter than the 309 digits of DBL_MAX
CmpMag(x, y) ==
    IF x.mag /= y.mag THEN CmpInt(MagRank(x.mag), MagRank(y.mag))
    ELSE IF x.mag /= "dec" THEN 0
    ELSE Then(CmpDigits(x.int, y.int), CmpLex(x.frac, y.frac))

CmpNum(x, y) ==
    IF Sign(x) /= Sign(y) THEN CmpInt(Sign(x), Sign(y))
    ELSE IF Sign(x) = 0 THEN 0
    ELSE IF Sign(x) = 1 THEN CmpMag(x, y) ELSE CmpMag(y, x)

\* documents whose elements are numbers: element by element, a prefix first
RECURSIVE CmpDoc(_, _)
CmpDoc(a, b) ==
    IF a = <<>> THEN (IF b = <<>> THEN 0 ELSE -1)
    ELSE IF b = <<>> THEN 1
    ELSE Then(Then(CmpStr(<<a[1].name>>, <<b[1].name>>),
                   CmpNum(NumOf(a[1]), NumOf(b[1]))),
              CmpDoc(Tail(a), Tail(b)))

SubtypeCode(s) ==
    CASE s = "BinDataGeneral" -> 0 [] s = "Function" -> 1 [] s = "bdtCustom" -> 128

BoolCode(b) == IF b THEN 1 ELSE 0

\* two values of one slot of the order
compareElementValues(l, r) ==
    CASE CanonicalRank(l.type) = 1 -> CmpNum(NumOf(l), NumOf(r))
      [] l.type \in {"Symbol", "String"} -> CmpStr(l.val.str, r.val.str)
      [] l.type \in {"Object", "Array"} -> CmpDoc(l.val.obj, r.val.obj)
      [] l.type = "BinData" ->
            Then(CmpInt(l.val.len, r.val.len),
                 Then(CmpInt(SubtypeCode(l.val.subtype), SubtypeCode(r.val.subtype)),
                      CmpLex(l.val.data, r.val.data)))
      [] l.type = "jstOID" -> CmpLex(l.val.oid, r.val.oid)
      [] l.type = "Bool" -> CmpInt(BoolCode(l.val.b), BoolCode(r.val.b))
      [] l.type = "Date" -> CmpNumeral(l.val.millis, r.val.millis)
      [] l.type = "Timestamp" ->
            Then(CmpInt(l.val.secs, r.val.secs), CmpInt(l.val.inc, r.val.inc))
      [] l.type = "RegEx" ->
            Then(CmpStr(l.val.regex, r.val.regex), CmpStr(l.val.flags, r.val.flags))
      [] l.type = "DBRef" ->
            Then(CmpStr(l.val.ns, r.val.ns), CmpLex(l.val.oid, r.val.oid))
      [] l.type = "Code" -> CmpStr(l.val.code, r.val.code)
      [] l.type = "CodeWScope" ->
            Then(CmpStr(l.val.code, r.val.code), CmpDoc(l.val.scope, r.val.scope))
      [] OTHER -> 0

\* the order of two elements' values: the slots first, then the values
Compare(l, r) ==
    Then(CmpInt(CanonicalRank(l.type), CanonicalRank(r.type)), compareElementValues(l, r))

(***************************************************************************)
(* Legal values of each type, as elements named "v": the extremes of the   *)
(* type and values next to them.  Doubles are the finite ones; timestamps  *)
(* have seconds and increment up to INT32_MAX.                             *)
(***************************************************************************)
Value(type, val) == Elem(type, "v", val)

SomeStrings == {<<>>, <<"a">>, <<"a", "b">>, <<"b">>}
SomeNumerals ==
    {INT64_MIN, Numeral(TRUE, <<1>>), Numeral(FALSE, <<>>), Numeral(FALSE, <<1>>), INT64_MAX}
SomeOIDs == {ZeroOID, [ZeroOID EXCEPT ![12] = 1], [MaxOID EXCEPT ![1] = 254], MaxOID}
SomeDocs == SeqsUpTo(DocElems, 2)

LegalValues(t) ==
    CASE t = "NumberInt" ->
            {Value(t, IntVal(i)) : i \in {-INT32_MAX - 1, -1, 0, 1, INT32_MAX}}
      [] t = "NumberLong" -> {Value(t, LongVal(n)) : n \in SomeNumerals}
      [] t = "NumberDouble" ->
            {Value(t, DoubleVal(d)) :
                d \in {NegDoubleMax, Dbl(TRUE, "dec", <<1>>, <<5>>),
                       Dbl(TRUE, "dec", <<>>, <<>>), Dbl(FALSE, "dec", <<>>, <<>>),
                       Dbl(FALSE, "dec", <<>>, <<5>>), DoubleMax}}
      [] t \in {"Symbol", "String"} -> {Value(t, StringVal(s)) : s \in SomeStrings}
      [] t = "Date" -> {Value(t, DateVal(n)) : n \in SomeNumerals}
      [] t = "Timestamp" ->
            {Value(t, TimestampVal(s, i)) : s \in {0, 1, INT32_MAX}, i \in {0, 1, INT32_MAX}}
      [] t \in {"Undefined", "MinKey", "MaxKey", "jstNULL"} -> {Value(t, NoPayload)}
      [] t = "jstOID" -> {Value(t, OIDVal(o)) : o \in SomeOIDs}
      [] t = "Bool" -> {Value(t, BoolVal(b)) : b \in BOOLEAN}
      [] t \in {"Object", "Array"} -> {Value(t, ObjVal(d)) : d \in SomeDocs}
      [] t = "BinData" ->
            {Value(t, BinDataVal(0, "BinDataGeneral", <<>>)),
             Value(t, BinDataVal(0, "Function", <<>>)),
             Value(t, BinDataVal(0, "bdtCustom", <<>>)),
             Value(t, BinDataVal(1, "BinDataGeneral", <<0>>)),
             Value(t, BinDataVal(1, "BinDataGeneral", <<255>>))}
      [] t = "RegEx" ->
            {Value(t, RegexVal(p, f)) : p \in SomeStrings, f \in {<<>>, <<"i">>}}
      [] t = "DBRef" -> {Value(t, DBRefVal(ns, o)) : ns \in SomeStrings, o \in SomeOIDs}
      [] t = "Code" -> {Value(t, CodeVal(c)) : c \in SomeStrings}
      [] t = "CodeWScope" ->
            {Value(t, CodeWScopeVal(c, d)) : c \in SomeStrings, d \in SomeDocs}

\* the element the last call appended
Appended == _b[Len(_b)]
AppendedOne == Len(_b) = Len(before) + 1 /\ SubSeq(_b, 1, Len(before)) = before

DocumentedSuccessor(t) ==
    CASE t \in {"String", "Symbol"} -> "Object"
      [] t = "Object" -> "Array"
      [] t = "Array" -> "BinData"
      [] t = "BinData" -> "jstOID"
      [] t = "RegEx" -> "DBRef"
      [] t = "DBRef" -> "Code"
      [] t = "Code" -> "CodeWScope"
      [] t = "CodeWScope" -> "MaxKey"

DocumentedChain ==
    {"String", "Symbol", "Object", "Array", "BinData", "RegEx", "DBRef", "Code", "CodeWScope"}

C2_MaxIsMinOfSuccessor ==
    (last.op = "appendMaxForType" /\ last.t \in DocumentedChain) =>
        LET min == appendMinForType(last.name, DocumentedSuccessor(last.t))
        IN  /\ last.ret = min.ret
            /\ _b = before \o min.elems
            /\ Len(min.elems) = 1

\* the maximum of Object has been appended: the empty array
C2_Witness ==
    /\ last.op = "appendMaxForType" /\ last.t = "Object" /\ AppendedOne
    /\ Appended = Elem("Array", last.name, ObjVal(<<>>))

(***************************************************************************)
(* C7: on a tag outside the supported set appendMinForType and             *)
(* appendMaxForType log a diagnostic and end in the unsupported-type       *)
(* assertion, appending nothing and never returning normally; on a         *)
(* supported tag they return normally with exactly one element named       *)
(* fieldName appended and nothing logged.                                  *)
(***************************************************************************)
C7_UnsupportedIsFatal ==
    last.op \in {"appendMinForType", "appendMaxForType"} =>
        IF last.t \in SupportedTags
        THEN /\ last.ret = "void"
             /\ AppendedOne
             /\ Appended.name = last.name
             /\ log = <<>>
        ELSE /\ last.ret =
                  (IF last.op = "appendMinForType" THEN "uassert 10061" ELSE "uassert 14853")
             /\ _b = before
             /\ Len(log) = 1

\* appendMinForType has thrown on EOO, the builder as it was
C7_Witness ==
    /\ last.op = "appendMinForType" /\ last.t = "EOO"
    /\ last.ret = "uassert 10061" /\ _b = before /\ log /= <<>>

C3_MismatchAppendsNothing ==
    (last.op = "appendKeys" /\ Len(last.keyPattern) /= Len(last.x)) =>
        /\ last.ret \in {"verify !i.more()", "verify !j.more()"}
        /\ _b = before

(***************************************************************************)
(* C5: after appendElementsUnique(other) the builder holds what it held    *)
(* before the call, followed by exactly those elements of other, in        *)
(* other's order and with other's values, whose field name the builder did *)
(* not hold before the call; names appended during the call do not count.  *)
(***************************************************************************)
OwnContent(buf) == SubSeq(buf, _offset + 1, Len(buf))

C5_UniqueAppendsUnseenNames ==
    last.op = "appendElementsUnique" =>
        LET held == NamesOf(OwnContent(before))
            Unseen(e) == e.name \notin held
        IN  /\ last.ret = "void"
            /\ _b = before \o SelectSeq(last.x, Unseen)

\* a builder holding a = 1 has been given {a: 2, b: 3} and holds {a: 1, b: 3}
C5_Witness ==
    /\ last.op = "appendElementsUnique"
    /\ last.x = <<Elem("NumberInt", "a", IntVal(2)), Elem("NumberInt", "b", IntVal(3))>>
    /\ OwnContent(_b) =
          <<Elem("NumberInt", "a", IntVal(1)), Elem("NumberInt", "b", IntVal(3))>>

(***************************************************************************)
(* C6: at every point hasField(name) is true exactly for the names that    *)
(* the append operations called so far have appended to this builder, and  *)
(* a call of hasField answers so and leaves the builder's content as it    *)
(* was.                                                                    *)
(***************************************************************************)
C6_HasFieldIffAppended ==
    /\ \A name \in QueryNames : hasField(_b, _offset, name) <=> name \in appended
    /\ last.op = "hasField" =>
          /\ _b = before
          /\ last.ret = (IF last.name \in appended THEN "true" ELSE "false")

\* a sub-builder, whose parent holds a field a, has answered false for a
\* and holds a field b
C6_Witness ==
    /\ last.op = "hasField" /\ last.name = "a" /\ last.ret = "false"
    /\ _offset > 0 /\ "b" \in appended /\ hasField(_b, _offset, "b")

(***************************************************************************)
(* C4: appendAsNumber either returns true with exactly one numeric element *)
(* named name appended, or returns false with the builder's content as it  *)
(* was before the call.                                                    *)
(***************************************************************************)
C4_AppendsOneOrNothing ==
    last.op = "appendAsNumber" =>
        \/ /\ last.ret = "true"
           /\ AppendedOne
           /\ Appended.name = last.name
           /\ Appended.type \in {"NumberDouble", "NumberInt", "NumberLong"}
        \/ /\ last.ret = "false"
           /\ _b = before

TwentyNines == [i \in 1..20 |-> "9"]

\* "99999999999999999999" has been rejected, the builder as it was
C4_Witness ==
    /\ last.op = "appendAsNumber" /\ last.data = TwentyNines
    /\ last.ret = "false" /\ _b = before

(***************************************************************************)
(* C8: a text that passes the validation is appended as a double if it     *)
(* holds a '.'; as a 32-bit integer equal to its decimal value, which then *)
(* lies in the signed 32-bit range, if it holds none and has fewer than 8  *)
(* characters; otherwise as a 64-bit integer equal to its decimal value if *)
(* that lies in the signed 64-bit range, and it is rejected if not.        *)
(***************************************************************************)
PassesValidation(data) ==
    ~EarlyReject(data) /\ Scan(data, StartPos(data), FALSE) /= "reject"

HasDot(data) == \E i \in 1..Len(data) : data[i] = "."

C8_KindFollowsShape ==
    (last.op = "appendAsNumber" /\ PassesValidation(last.data)) =>
        IF HasDot(last.data)
        THEN last.ret = "true" /\ AppendedOne /\ Appended.type = "NumberDouble"
        ELSE IF Len(last.data) < 8
        THEN /\ last.ret = "true" /\ AppendedOne /\ Appended.type = "NumberInt"
             /\ InInt32(DecimalValue(last.data))
             /\ IntNumeral(Appended.val.i32) = DecimalValue(last.data)
        ELSE IF InInt64(DecimalValue(last.data))
        THEN /\ last.ret = "true" /\ AppendedOne /\ Appended.type = "NumberLong"
             /\ Appended.val.i64 = DecimalValue(last.data)
        ELSE last.ret = "false" /\ _b = before

\* "12345678", of 8 characters, has been appended as the 64-bit integer 12345678
C8_Witness ==
    /\ last.op = "appendAsNumber" /\ last.data = <<"1","2","3","4","5","6","7","8">>
    /\ last.ret = "true" /\ AppendedOne
    /\ Appended.type = "NumberLong"
    /\ Appended.val.i64 = Numeral(FALSE, <<1,2,3,4,5,6,7,8>>)

(***************************************************************************)
(* C10 as stated: whenever appendAsNumber returns true the text is a       *)
(* well-formed decimal numeral: an optional single leading '-', at most    *)
(* one '.', and at least one digit.  The code accepts "-.", which holds no *)
(* digit, and appends the double 0.                                        *)
(***************************************************************************)
WellFormedNumeral(data) ==
    /\ \A i \in 1..Len(data) : data[i] \in Digits \cup {"-", "."}
    /\ \A i \in 1..Len(data) : data[i] = "-" => i = 1
    /\ Cardinality({i \in 1..Len(data) : data[i] = "."}) <= 1
    /\ \E i \in 1..Len(data) : data[i] \in Digits

C10_AcceptedIsWellFormed ==
    (last.op = "appendAsNumber" /\ last.ret = "true") => WellFormedNumeral(last.data)

====
